---- MODULE Spec2Model ----
(***************************************************************************)
(* jsonnetize: resolution of a kustomization tree into an output tree.     *)
(* Model of src/cmd/jsonnetize/main.go.  Paths and references are strings; *)
(* the filesystem is a function from absolute, cleaned paths to nodes.     *)
(***************************************************************************)
EXTENDS Integers, Sequences, FiniteSets, TLC

(***************************************************************************)
(* Bounds of the model.                                                    *)
(***************************************************************************)
\* reference entries of the whole tree (root manifest plus nested manifest)
MaxRefs == 2

(***************************************************************************)
(* Strings and paths (path/filepath, strings).                             *)
(***************************************************************************)
Char(s, i) == SubSeq(s, i, i)

\* strings.HasSuffix, used by the properties only
HasSuffix(s, suf) ==
  /\ Len(s) >= Len(suf)
  /\ SubSeq(s, Len(s) - Len(suf) + 1, Len(s)) = suf

\* strings.LastIndex: 0-based index of the last occurrence of sub in s, or -1
LastIndex(s, sub) ==
  LET hits == {i \in 0..(Len(s) - Len(sub)) : SubSeq(s, i + 1, i + Len(sub)) = sub}
  IN  IF hits = {} THEN -1 ELSE CHOOSE i \in hits : \A k \in hits : k <= i

\* the slash-separated elements of s from position i on; cur is the element being read
RECURSIVE Elems(_, _, _)
Elems(s, i, cur) ==
  IF i > Len(s) THEN <<cur>>
  ELSE IF Char(s, i) = "/" THEN <<cur>> \o Elems(s, i + 1, "")
  ELSE Elems(s, i + 1, cur \o Char(s, i))

\* filepath.Clean on elements: drops "" and ".", resolves ".."
RECURSIVE CleanElems(_, _, _)
CleanElems(es, rooted, out) ==
  IF es = <<>> THEN out
  ELSE LET e == Head(es) IN
    IF e = "" \/ e = "." THEN CleanElems(Tail(es), rooted, out)
    ELSE IF e = ".." THEN
      IF out # <<>> /\ out[Len(out)] # ".."
        THEN CleanElems(Tail(es), rooted, SubSeq(out, 1, Len(out) - 1))
      ELSE IF rooted THEN CleanElems(Tail(es), rooted, out)
      ELSE CleanElems(Tail(es), rooted, Append(out, e))
    ELSE CleanElems(Tail(es), rooted, Append(out, e))

\* strings.Join(es, "/")
RECURSIVE JoinElems(_)
JoinElems(es) ==
  IF es = <<>> THEN ""
  ELSE IF Len(es) = 1 THEN es[1]
  ELSE es[1] \o "/" \o JoinElems(Tail(es))

\* filepath.IsAbs
IsAbs(p) == p # "" /\ Char(p, 1) = "/"

\* filepath.Clean
Clean(p) ==
  IF p = "" THEN "."
  ELSE LET body == JoinElems(CleanElems(Elems(p, 1, ""), IsAbs(p), <<>>))
       IN  IF IsAbs(p) THEN "/" \o body
           ELSE IF body = "" THEN "." ELSE body

\* filepath.Join: from the first non-empty element on, joined with "/" and cleaned
RECURSIVE Join(_)
Join(es) ==
  IF es = <<>> THEN ""
  ELSE IF es[1] = "" THEN Join(Tail(es))
  ELSE Clean(JoinElems(es))

\* filepath.Dir: everything up to the last slash, cleaned
Dir(p) == Clean(SubSeq(p, 1, LastIndex(p, "/") + 1))

\* os.FileInfo.Name: the last element of the path
BaseName(p) == SubSeq(p, LastIndex(p, "/") + 2, Len(p))

(***************************************************************************)
(* Reference classification.                                               *)
(***************************************************************************)
Letters ==
  {"a", "b", "c", "d", "e", "f", "g", "h", "i", "j", "k", "l", "m",
   "n", "o", "p", "q", "r", "s", "t", "u", "v", "w", "x", "y", "z"}

SchemeExtras == {"0", "1", "2", "3", "4", "5", "6", "7", "8", "9", "+", "-", "."}

\* net/url getScheme: [err, scheme, rest]
RECURSIVE GetScheme(_, _)
GetScheme(raw, i) ==
  IF i > Len(raw) THEN [err |-> FALSE, scheme |-> "", rest |-> raw]
  ELSE LET c == Char(raw, i) IN
    IF c \in Letters THEN GetScheme(raw, i + 1)
    ELSE IF c \in SchemeExtras THEN
      IF i = 1 THEN [err |-> FALSE, scheme |-> "", rest |-> raw]
      ELSE GetScheme(raw, i + 1)
    ELSE IF c = ":" THEN
      IF i = 1 THEN [err |-> TRUE, scheme |-> "", rest |-> ""]
      ELSE [err |-> FALSE, scheme |-> SubSeq(raw, 1, i - 1),
            rest |-> SubSeq(raw, i + 1, Len(raw))]
    ELSE [err |-> FALSE, scheme |-> "", rest |-> raw]

\* net/url Parse, as far as the scheme and the errors of plain paths go:
\* a relative reference whose first segment holds a colon is an error
UrlParse(raw) ==
  LET g == GetScheme(raw, 1) IN
    IF g.err THEN [err |-> TRUE, scheme |-> ""]
    ELSE IF g.scheme = "" /\ ~IsAbs(g.rest)
            /\ LastIndex(Elems(g.rest, 1, "")[1], ":") >= 0
      THEN [err |-> TRUE, scheme |-> ""]
    ELSE [err |-> FALSE, scheme |-> g.scheme]

isLocalFile(path) ==
  LET parse == UrlParse(path) IN
    IF parse.err THEN FALSE
    ELSE parse.scheme = "" \/ parse.scheme = "file"

\* faulty variant: the suffix position taken one character off
isJsonnetFile_offByOne(path) == LastIndex(path, ".jsonnet") = Len(path) - 7

isJsonnetFile(path) == LastIndex(path, ".jsonnet") = Len(path) - 8

(***************************************************************************)
(* The state.                                                              *)
(***************************************************************************)
VARIABLES
  cwd,           \* working directory of the process
  outputFlag,    \* value of -output ("" when not given)
  args,          \* positional arguments
  j,             \* the Jsonnetizer: [Base, Output]
  fs,            \* the filesystem: absolute path -> node
  fs0,           \* the filesystem before the run
  pc,            \* position of the process
  call,          \* arguments of the processKustomization call being entered
  stack,         \* the processKustomization invocations in progress
  err,           \* the error being returned ("" is nil)
  jsonnetRuns,   \* invocations of the renderer: [src, dest]
  kustomizeRuns, \* invocations of the build tool: its root argument
  writes,        \* files written by the resolver: [kind, src, dest]
  nmut,          \* number of steps that changed the filesystem
  visited,       \* the kustomizations entered: [root, kust]
  last,          \* what the last step did
  exit           \* exit status (-1 while running)

vars == <<cwd, outputFlag, args, j, fs, fs0, pc, call, stack, err, jsonnetRuns,
          kustomizeRuns, writes, nmut, visited, last, exit>>

(***************************************************************************)
(* Filesystem (package os).                                                *)
(***************************************************************************)
DirNode == [type |-> "dir", tag |-> "", bytes |-> "", res |-> <<>>, gen |-> <<>>, trans |-> <<>>]

DataFile(b) == [type |-> "file", tag |-> "data", bytes |-> b, res |-> <<>>, gen |-> <<>>, trans |-> <<>>]

EmptyFile == DataFile("")

Put(f, a, node) == [q \in DOMAIN f \cup {a} |-> IF q = a THEN node ELSE f[q]]

\* the absolute path the kernel resolves p to
Abs(p) == IF IsAbs(p) THEN Clean(p) ELSE Join(<<cwd, p>>)

\* the directories on the way to the absolute, cleaned path a, and a itself
Ancestors(a) ==
  {a} \cup {IF i = 1 THEN "/" ELSE SubSeq(a, 1, i - 1) : i \in {k \in 1..Len(a) : Char(a, k) = "/"}}

\* os.Stat / os.Lstat (the tree holds no symbolic links)
Stat(f, p) ==
  IF Abs(p) \in DOMAIN f
    THEN [err |-> "", isDir |-> f[Abs(p)].type = "dir", name |-> BaseName(Abs(p))]
    ELSE [err |-> "stat", isDir |-> FALSE, name |-> ""]

\* os.MkdirAll: fails below a file, else creates every missing directory
MkdirAll(f, p) ==
  LET as == Ancestors(Abs(p)) IN
    IF \E a \in as : a \in DOMAIN f /\ f[a].type = "file"
      THEN [err |-> "mkdir", fs |-> f]
      ELSE [err |-> "", fs |-> [q \in DOMAIN f \cup as |-> IF q \in DOMAIN f THEN f[q] ELSE DirNode]]

\* os.Create: creates or truncates the file
Create(f, p) ==
  LET a == Abs(p) IN
    IF /\ Dir(a) \in DOMAIN f
       /\ f[Dir(a)].type = "dir"
       /\ (a \in DOMAIN f => f[a].type = "file")
      THEN [err |-> "", fs |-> Put(f, a, EmptyFile)]
      ELSE [err |-> "create", fs |-> f]

(***************************************************************************)
(* Jsonnetizer.                                                            *)
(***************************************************************************)
\* faulty variant: the manifest directory left out of the output path
QualifyOutput_noRoot(jz, root, path) == Join(<<jz.Output, path>>)

QualifyOutput(jz, root, path) == Join(<<jz.Output, root, path>>)

\* copyFile after os.Create(dest): io.Copy reads src as it is now
copyFile_copy(cr, f, src, dest) ==
  IF cr.err # "" THEN [err |-> cr.err, fs |-> f, sys |-> <<"MkdirAll", "Open", "Create">>]
  ELSE IF cr.fs[Abs(src)].type = "dir"
    THEN [err |-> "copy", fs |-> cr.fs, sys |-> <<"MkdirAll", "Open", "Create", "Copy">>]
  ELSE [err |-> "", fs |-> Put(cr.fs, Abs(dest), cr.fs[Abs(src)]),
        sys |-> <<"MkdirAll", "Open", "Create", "Copy">>]

\* copyFile after os.MkdirAll(filepath.Dir(dest)): os.Open(src), os.Create(dest)
copyFile_open(mk, f, src, dest) ==
  IF mk.err # "" THEN [err |-> mk.err, fs |-> f, sys |-> <<"MkdirAll">>]
  ELSE IF Abs(src) \notin DOMAIN mk.fs
    THEN [err |-> "open", fs |-> mk.fs, sys |-> <<"MkdirAll", "Open">>]
  ELSE copyFile_copy(Create(mk.fs, dest), mk.fs, src, dest)

copyFile(f, src, dest) == copyFile_open(MkdirAll(f, Dir(dest)), f, src, dest)

\* the renderer after it has created its output file
Jsonnet_write(cr, f, outputFile, qPath) ==
  IF cr.err # "" THEN [err |-> "jsonnet", fs |-> f]
  ELSE [err |-> "",
        fs |-> Put(cr.fs, Abs(outputFile),
                   [type |-> "file", tag |-> "rendered", bytes |-> f[Abs(qPath)].bytes,
                    res |-> <<>>, gen |-> <<>>, trans |-> <<>>])]

\* the renderer: jsonnet -o outputFile qPath; ok is whether the template evaluates
Jsonnet(f, outputFile, qPath, ok) ==
  IF Abs(qPath) \notin DOMAIN f \/ f[Abs(qPath)].type = "dir" \/ ~ok
    THEN [err |-> "jsonnet", fs |-> f]
  ELSE Jsonnet_write(Create(f, outputFile), f, outputFile, qPath)

\* processFileRef, template branch, after cmd.CombinedOutput
processFileRef_ran(run, qPath, outputFile, path) ==
  IF run.err # ""
    THEN [err |-> run.err, result |-> "", fs |-> run.fs, sys |-> <<"MkdirAll", "jsonnet">>,
          runs |-> <<[src |-> qPath, dest |-> outputFile]>>, wrote |-> <<>>]
  ELSE [err |-> "", result |-> path \o ".yml", fs |-> run.fs,
        sys |-> <<"MkdirAll", "jsonnet">>,
        runs |-> <<[src |-> qPath, dest |-> outputFile]>>,
        wrote |-> <<[kind |-> "render", src |-> qPath, dest |-> outputFile]>>]

\* processFileRef, template branch, after os.MkdirAll
processFileRef_render(mk, f, qPath, outputFile, path, ok) ==
  IF mk.err # ""
    THEN [err |-> mk.err, result |-> "", fs |-> f, sys |-> <<"MkdirAll">>,
          runs |-> <<>>, wrote |-> <<>>]
  ELSE processFileRef_ran(Jsonnet(mk.fs, outputFile, qPath, ok), qPath, outputFile, path)

\* processFileRef, literal branch: return path, copyFile(qPath, dest)
processFileRef_copy(c, qPath, dest, path) ==
  [err |-> c.err, result |-> path, fs |-> c.fs, sys |-> c.sys, runs |-> <<>>,
   wrote |-> IF c.err = "" THEN <<[kind |-> "copy", src |-> qPath, dest |-> dest]>>
             ELSE <<>>]

\* processFileRef with qPath and the qualified output path computed
processFileRef_at(f, qPath, out, path, ok) ==
  IF ~isLocalFile(qPath)
    THEN [err |-> "", result |-> path, fs |-> f, sys |-> <<>>, runs |-> <<>>, wrote |-> <<>>]
  ELSE IF isJsonnetFile(qPath) /\ ~IsAbs(path)
    THEN processFileRef_render(MkdirAll(f, Dir(out \o ".yml")), f, qPath, out \o ".yml", path, ok)
  ELSE processFileRef_copy(copyFile(f, qPath, out), qPath, out, path)

processFileRef(f, jz, root, path, ok) ==
  processFileRef_at(f, Join(<<root, path>>), QualifyOutput(jz, root, path), path, ok)

\* findKustFile after the os.Stat calls
findKustFile_found(f, path) ==
  IF Stat(f, path).err # "" THEN [err |-> "no kustomization file", path |-> ""]
  ELSE IF f[Abs(path)].type # "file" THEN [err |-> "not a file", path |-> ""]
  ELSE [err |-> "", path |-> path]

\* findKustFile: kustomization.yml, then kustomization.yaml
findKustFile(f, root) ==
  findKustFile_found(f, IF Stat(f, Join(<<root, "kustomization.yml">>)).err = ""
                          THEN Join(<<root, "kustomization.yml">>)
                          ELSE Join(<<root, "kustomization.yaml">>))

\* yaml.Unmarshal into types.Kustomization: the three reference lists
Unmarshal(node) == [res |-> node.res, gen |-> node.gen, trans |-> node.trans]

\* yaml.Marshal of the kustomization
Marshal(k) ==
  [type |-> "file", tag |-> "manifest", bytes |-> "", res |-> k.res, gen |-> k.gen, trans |-> k.trans]

ResourceType == 0

PluginType == 1

\* the result of processFileRef as processResource and processPlugin hand it on
Returned(r, sys) ==
  [err |-> r.err, result |-> IF r.err # "" THEN "" ELSE r.result, fs |-> r.fs,
   sys |-> sys \o r.sys, runs |-> r.runs, wrote |-> r.wrote, recurse |-> FALSE]

\* processResource after os.Lstat
processResource_stat(si, f, jz, root, path, ok) ==
  IF si.err # ""
    THEN [err |-> si.err, result |-> "", fs |-> f, sys |-> <<"Lstat">>, runs |-> <<>>,
          wrote |-> <<>>, recurse |-> FALSE]
  ELSE IF si.isDir
    THEN [err |-> "", result |-> path, fs |-> f, sys |-> <<"Lstat">>, runs |-> <<>>,
          wrote |-> <<>>, recurse |-> TRUE]
  ELSE Returned(processFileRef(f, jz, root, path, ok), <<"Lstat">>)

processResource(f, jz, root, path, ok) ==
  processResource_stat(Stat(f, Join(<<root, path>>)), f, jz, root, path, ok)

\* faulty variant: plugin entries handled as resources
processPlugin_asResource(f, jz, root, path, ok) == processResource(f, jz, root, path, ok)

processPlugin(f, jz, root, path, ok) ==
  Returned(processFileRef(f, jz, root, path, ok), <<>>)

\* faulty variant: the empty-path check left out
processTypes_noEmptyCheck(f, jz, root, kustType, path, ok) ==
  IF kustType = ResourceType THEN processResource(f, jz, root, path, ok)
  ELSE processPlugin(f, jz, root, path, ok)

\* one iteration of the loop of processTypes
processTypes(f, jz, root, kustType, path, ok) ==
  IF path = ""
    THEN [err |-> "empty path", result |-> "", fs |-> f, sys |-> <<>>, runs |-> <<>>,
          wrote |-> <<>>, recurse |-> FALSE]
  ELSE IF kustType = ResourceType THEN processResource(f, jz, root, path, ok)
  ELSE processPlugin(f, jz, root, path, ok)

\* faulty variant: the updated path put in front
appendFinal_prepend(final, updatedPath) == <<updatedPath>> \o final

\* finalResources = append(finalResources, updatedPath)
appendFinal(final, updatedPath) == Append(final, updatedPath)

(***************************************************************************)
(* Frames of processKustomization.                                         *)
(***************************************************************************)
NoKust == [res |-> <<>>, gen |-> <<>>, trans |-> <<>>]

\* li is the list being processed: 1 resources, 2 generators, 3 transformers, 4 none left
ListOf(k, li) == IF li = 1 THEN k.res ELSE IF li = 2 THEN k.gen ELSE k.trans

SetList(k, li, v) ==
  IF li = 1 THEN [k EXCEPT !.res = v]
  ELSE IF li = 2 THEN [k EXCEPT !.gen = v]
  ELSE [k EXCEPT !.trans = v]

TypeOf(li) == IF li = 1 THEN ResourceType ELSE PluginType

NoFrame ==
  [root |-> "", kust |-> "", k |-> NoKust, orig |-> NoKust, li |-> 0, idx |-> 0,
   final |-> <<>>, mut0 |-> 0]

NoStep ==
  [op |-> "", li |-> 0, ref |-> "", sys |-> <<>>, runs |-> <<>>, result |-> "", err |-> "",
   recurse |-> FALSE, frame |-> NoFrame]

Top == stack[Len(stack)]

Pop(st) == SubSeq(st, 1, Len(st) - 1)

(***************************************************************************)
(* The inputs: environments and trees.                                     *)
(***************************************************************************)
Url == "https://e.io/g"

Refs == {"", "a.yml", "c.jsonnet", "/c.jsonnet", "o", Url}

SubRefs == {"", "e.yml", "d.jsonnet", Url}

Envs ==
  { [cwd |-> "/w", output |-> "", args |-> <<"p">>],
    [cwd |-> "/w", output |-> "/out", args |-> <<"p">>],
    [cwd |-> "/w/p", output |-> "/out", args |-> <<".">>],
    [cwd |-> "/w", output |-> "/out", args |-> <<"/w/p">>],
    [cwd |-> "/w", output |-> "/out", args |-> <<"p/kustomization.yml">>],
    [cwd |-> "/w", output |-> "/out", args |-> <<"q">>],
    [cwd |-> "/w", output |-> "/out", args |-> <<>>] }

Total(k) == Len(k.res) + Len(k.gen) + Len(k.trans)

\* the manifests of at most n entries over refs
Manifests(refs, n) ==
  UNION { [res : [1..t[1] -> refs], gen : [1..t[2] -> refs], trans : [1..t[3] -> refs]] :
          t \in {u \in (0..n) \X (0..n) \X (0..n) : u[1] + u[2] + u[3] <= n} }

\* the nested manifest matters only when the root manifest lists its directory
SubManifests(r) ==
  IF \E i \in 1..Len(r.res) : r.res[i] = "o"
    THEN Manifests(SubRefs, MaxRefs - Total(r))
    ELSE {NoKust}

Tree(r, s) ==
  [p \in {"/", "/w", "/w/p", "/w/p/o", "/w/p/kustomization.yml", "/w/p/a.yml",
          "/w/p/c.jsonnet", "/w/p/o/kustomization.yaml", "/w/p/o/e.yml",
          "/w/p/o/d.jsonnet"} |->
     IF p = "/w/p/kustomization.yml" THEN Marshal(r)
     ELSE IF p = "/w/p/o/kustomization.yaml" THEN Marshal(s)
     ELSE IF p = "/w/p/a.yml" THEN DataFile("A")
     ELSE IF p = "/w/p/c.jsonnet" THEN DataFile("C")
     ELSE IF p = "/w/p/o/e.yml" THEN DataFile("E")
     ELSE IF p = "/w/p/o/d.jsonnet" THEN DataFile("D")
     ELSE DirNode]

Init ==
  \E env \in Envs : \E r \in Manifests(Refs, MaxRefs) : \E s \in SubManifests(r) :
    /\ cwd = env.cwd
    /\ outputFlag = env.output
    /\ args = env.args
    /\ j = [Base |-> "", Output |-> ""]
    /\ fs = Tree(r, s)
    /\ fs0 = Tree(r, s)
    /\ pc = "main"
    /\ call = [oldRoot |-> "", resource |-> ""]
    /\ stack = <<>>
    /\ err = ""
    /\ jsonnetRuns = <<>>
    /\ kustomizeRuns = <<>>
    /\ writes = <<>>
    /\ nmut = 0
    /\ visited = <<>>
    /\ last = NoStep
    /\ exit = -1

(***************************************************************************)
(* The driver.                                                             *)
(***************************************************************************)
Fatalln(e) ==
  /\ pc' = "exit"
  /\ exit' = 1
  /\ err' = e

\* main from os.Stat(kustRoot) to the call of processKustomization
Main_stat(si, output) ==
  IF si.err # "" THEN Fatalln(si.err) /\ UNCHANGED <<j, call>>
  ELSE IF ~si.isDir /\ (si.name # "kustomization.yml" \/ si.name # "kustomization.yaml")
    THEN Fatalln("Argument must be a kustomization root or yaml file")
         /\ UNCHANGED <<j, call>>
  ELSE /\ j' = [Base |-> IF si.isDir THEN args[1] ELSE Dir(args[1]), Output |-> output]
       /\ call' = [oldRoot |-> IF si.isDir THEN args[1] ELSE Dir(args[1]), resource |-> ""]
       /\ pc' = "enter"
       /\ UNCHANGED <<exit, err>>

\* main up to the call of processKustomization
Main ==
  /\ pc = "main"
  /\ IF Len(args) = 0 THEN Fatalln("Not enough args") /\ UNCHANGED <<j, call>>
     ELSE Main_stat(Stat(fs, args[1]), IF outputFlag = "" THEN cwd ELSE outputFlag)
  /\ last' = [NoStep EXCEPT !.op = "main"]
  /\ UNCHANGED <<visited, cwd, outputFlag, args, fs, fs0, stack, jsonnetRuns, kustomizeRuns, writes, nmut>>

\* processKustomization returns err to its caller
ReturnErr(e, st) ==
  /\ err' = e
  /\ stack' = st
  /\ pc' = "return"

\* the invocation that starts on the kustomization read from kust
NewFrame(root, kust, k) ==
  [root |-> root, kust |-> kust, k |-> k, orig |-> k, li |-> 1, idx |-> 1,
   final |-> <<>>, mut0 |-> nmut]

\* processKustomization after findKustFile: ioutil.ReadFile, yaml.Unmarshal
ProcessKustomization_found(kf, root) ==
  IF kf.err # ""
    THEN /\ ReturnErr(kf.err, stack)
         /\ UNCHANGED visited
         /\ last' = [NoStep EXCEPT !.op = "enter", !.ref = call.resource, !.err = kf.err,
                                   !.sys = <<"Stat">>]
    ELSE /\ stack' = Append(stack, NewFrame(root, kf.path, Unmarshal(fs[Abs(kf.path)])))
         /\ visited' = Append(visited, [root |-> root, kust |-> kf.path])
         /\ pc' = "types"
         /\ err' = ""
         /\ last' = [NoStep EXCEPT !.op = "enter", !.ref = call.resource,
                                   !.sys = <<"Stat", "ReadFile">>,
                                   !.frame = NewFrame(root, kf.path, Unmarshal(fs[Abs(kf.path)]))]

\* processKustomization from its entry to the first processTypes
ProcessKustomization ==
  /\ pc = "enter"
  /\ ProcessKustomization_found(findKustFile(fs, Join(<<call.oldRoot, call.resource>>)),
                                Join(<<call.oldRoot, call.resource>>))
  /\ UNCHANGED <<cwd, outputFlag, args, j, fs, fs0, call, jsonnetRuns, kustomizeRuns,
                 writes, nmut, exit>>

\* the effect of one iteration of processTypes whose result is r
ProcessTypes_result(r, path) ==
  /\ fs' = r.fs
  /\ jsonnetRuns' = jsonnetRuns \o r.runs
  /\ writes' = writes \o r.wrote
  /\ nmut' = nmut + (IF r.fs # fs THEN 1 ELSE 0)
  /\ IF r.err # "" THEN ReturnErr(r.err, Pop(stack)) /\ UNCHANGED call
     ELSE IF r.recurse
       THEN /\ call' = [oldRoot |-> Top.root, resource |-> path]
            /\ pc' = "enter"
            /\ UNCHANGED <<stack, err>>
     ELSE /\ stack' = [stack EXCEPT ![Len(stack)] =
                          [@ EXCEPT !.final = appendFinal(@, r.result), !.idx = @ + 1]]
          /\ UNCHANGED <<pc, err, call>>
  /\ last' = [op |-> "entry", li |-> Top.li, ref |-> path, sys |-> r.sys, runs |-> r.runs,
              result |-> r.result, err |-> r.err, recurse |-> r.recurse,
              frame |-> Top]

\* one iteration of processTypes on the list the top invocation is at
ProcessTypes ==
  /\ pc = "types"
  /\ Top.li <= 3
  /\ Top.idx <= Len(ListOf(Top.k, Top.li))
  /\ \E ok \in BOOLEAN :
       ProcessTypes_result(processTypes(fs, j, Top.root, TypeOf(Top.li),
                                        ListOf(Top.k, Top.li)[Top.idx], ok),
                           ListOf(Top.k, Top.li)[Top.idx])
  /\ UNCHANGED <<visited, cwd, outputFlag, args, j, fs0, kustomizeRuns, exit>>

\* processTypes returns finalResources and the list of the kustomization is replaced
ProcessTypesReturn ==
  /\ pc = "types"
  /\ Top.li <= 3
  /\ Top.idx > Len(ListOf(Top.k, Top.li))
  /\ stack' = [stack EXCEPT ![Len(stack)] =
                 [@ EXCEPT !.k = SetList(@, Top.li, Top.final), !.li = @ + 1, !.idx = 1,
                           !.final = <<>>, !.mut0 = nmut]]
  /\ last' = [NoStep EXCEPT !.op = "list", !.li = Top.li, !.frame = Top]
  /\ UNCHANGED <<visited, cwd, outputFlag, args, j, fs, fs0, pc, call, err, jsonnetRuns,
                 kustomizeRuns, writes, nmut, exit>>

\* processKustomization after os.Create(output): yaml.Marshal, f.Write;
\* ok is whether f.Write succeeds
WriteKustomization_created(cr, output, ok) ==
  /\ IF cr.err # ""
       THEN /\ ReturnErr(cr.err, Pop(stack))
            /\ UNCHANGED <<fs, writes, nmut>>
       ELSE IF ~ok
         THEN /\ fs' = cr.fs
              /\ nmut' = nmut + (IF cr.fs # fs THEN 1 ELSE 0)
              /\ ReturnErr("write", Pop(stack))
              /\ UNCHANGED writes
       ELSE /\ fs' = Put(cr.fs, Abs(output), Marshal(Top.k))
            /\ writes' = Append(writes, [kind |-> "manifest", src |-> Top.kust,
                                         dest |-> output])
            /\ nmut' = nmut + 1
            /\ ReturnErr("", Pop(stack))
  /\ last' = [NoStep EXCEPT !.op = "write", !.ref = Top.kust, !.result = output,
                            !.err = IF cr.err # "" THEN cr.err ELSE IF ok THEN "" ELSE "write",
                            !.sys = <<"Create", "Write">>,
                            !.frame = Top]

\* the rewritten kustomization is written to the output tree
WriteKustomization ==
  /\ pc = "types"
  /\ Top.li = 4
  /\ \E ok \in BOOLEAN :
       WriteKustomization_created(Create(fs, QualifyOutput(j, Top.kust, "")),
                                  QualifyOutput(j, Top.kust, ""), ok)
  /\ UNCHANGED <<visited, cwd, outputFlag, args, j, fs0, call, jsonnetRuns, kustomizeRuns, exit>>

\* faulty variant: the error of the nested processKustomization dropped
ProcessResourceReturn_swallow ==
  /\ pc = "return"
  /\ stack # <<>>
  /\ stack' = [stack EXCEPT ![Len(stack)] =
                 [@ EXCEPT !.final = appendFinal(@, call.resource), !.idx = @ + 1]]
  /\ pc' = "types"
  /\ err' = ""
  /\ last' = [NoStep EXCEPT !.op = "resumed", !.li = Top.li, !.ref = call.resource,
                            !.result = call.resource, !.frame = Top]
  /\ UNCHANGED <<visited, cwd, outputFlag, args, j, fs, fs0, call, jsonnetRuns, kustomizeRuns,
                 writes, nmut, exit>>

\* processResource after the nested processKustomization has returned
ProcessResourceReturn ==
  /\ pc = "return"
  /\ stack # <<>>
  /\ IF err # "" THEN ReturnErr(err, Pop(stack))
     ELSE /\ stack' = [stack EXCEPT ![Len(stack)] =
                         [@ EXCEPT !.final = appendFinal(@, call.resource), !.idx = @ + 1]]
          /\ pc' = "types"
          /\ UNCHANGED err
  /\ last' = [NoStep EXCEPT !.op = "resumed", !.li = Top.li, !.ref = call.resource,
                            !.result = IF err # "" THEN "" ELSE call.resource,
                            !.err = err, !.frame = Top]
  /\ UNCHANGED <<visited, cwd, outputFlag, args, j, fs, fs0, call, jsonnetRuns, kustomizeRuns,
                 writes, nmut, exit>>

\* main after processKustomization has returned
MainReturn ==
  /\ pc = "return"
  /\ stack = <<>>
  /\ IF err # "" THEN Fatalln(err)
     ELSE pc' = "kustomize" /\ UNCHANGED <<err, exit>>
  /\ last' = [NoStep EXCEPT !.op = "resolved", !.err = err]
  /\ UNCHANGED <<visited, cwd, outputFlag, args, j, fs, fs0, call, stack, jsonnetRuns,
                 kustomizeRuns, writes, nmut>>

\* runKustomize on the output root; ok is whether the build tool succeeds
RunKustomize ==
  /\ pc = "kustomize"
  /\ \E ok \in BOOLEAN :
       /\ kustomizeRuns' = Append(kustomizeRuns, QualifyOutput(j, j.Base, ""))
       /\ pc' = "exit"
       /\ exit' = IF ok THEN 0 ELSE 1
       /\ err' = IF ok THEN "" ELSE "kustomize"
  /\ last' = [NoStep EXCEPT !.op = "kustomize"]
  /\ UNCHANGED <<visited, cwd, outputFlag, args, j, fs, fs0, call, stack, jsonnetRuns, writes, nmut>>

Next ==
  \/ Main
  \/ ProcessKustomization
  \/ ProcessTypes
  \/ ProcessTypesReturn
  \/ WriteKustomization
  \/ ProcessResourceReturn
  \/ MainReturn
  \/ RunKustomize

Spec == Init /\ [][Next]_vars

(***************************************************************************)
(* Properties.                                                             *)
(***************************************************************************)
Range(sq) == {sq[i] : i \in 1..Len(sq)}

\* the last step was an iteration of processTypes on a non-empty entry
EntryDone == last.op = "entry" /\ last.ref # ""

\* the path the last entry names, relative to the process
LastQPath == Join(<<last.frame.root, last.ref>>)

\* the reference string itself parses to a scheme other than "" and "file"
NonLocalRef(ref) ==
  /\ ~UrlParse(ref).err
  /\ UrlParse(ref).scheme \notin {"", "file"}

\* the last entry went through processFileRef as a local file of the input tree
LocalFileDone ==
  /\ EntryDone
  /\ ~last.recurse
  /\ isLocalFile(LastQPath)
  /\ Abs(LastQPath) \in DOMAIN fs0
  /\ fs0[Abs(LastQPath)].type = "file"

\* C1: a local file reference that does not end in ".jsonnet", once resolved
\* without error, is kept unchanged in the rewritten list, is never handed to
\* the renderer, and its output file holds the bytes the input file had before
\* the run.
C1_LiteralCopied ==
  (LocalFileDone /\ last.err = "" /\ ~HasSuffix(last.ref, ".jsonnet")) =>
    /\ last.result = last.ref
    /\ "jsonnet" \notin Range(last.sys)
    /\ Abs(Join(<<j.Output, last.frame.root, last.ref>>)) \in DOMAIN fs
    /\ fs[Abs(Join(<<j.Output, last.frame.root, last.ref>>))].bytes = fs0[Abs(LastQPath)].bytes

\* C2: a non-local reference, in any list of a manifest at any depth, resolves
\* without error to itself, with no filesystem call and no renderer run.
C2_NonLocalUntouched ==
  (EntryDone /\ NonLocalRef(last.ref)) =>
    /\ last.err = ""
    /\ last.result = last.ref
    /\ last.sys = <<>>
    /\ last.runs = <<>>

\* C3, as claimed: when a list holds an empty entry, resolution fails and no
\* filesystem mutation has been made for any entry of that list, the entries
\* before the empty one included.
C3_EmptyFailsBeforeAnyMutation ==
  (last.op = "entry" /\ last.ref = "") =>
    /\ last.err = "empty path"
    /\ nmut = last.frame.mut0

\* the top invocation is about to process an empty entry
AtEmptyEntry ==
  /\ pc = "types"
  /\ Top.li <= 3
  /\ Top.idx <= Len(ListOf(Top.k, Top.li))
  /\ ListOf(Top.k, Top.li)[Top.idx] = ""

\* C3, amended: when resolution reaches an empty entry it fails there with an
\* error, and no filesystem mutation, renderer run or write is made for that
\* entry or for any entry after it in the list; the entries before it have
\* been processed already.
C3_EmptyFailsAtEntry ==
  [][AtEmptyEntry =>
       /\ err' = "empty path"
       /\ pc' = "return"
       /\ stack' = Pop(stack)
       /\ fs' = fs
       /\ nmut' = nmut
       /\ jsonnetRuns' = jsonnetRuns
       /\ writes' = writes
       /\ last'.sys = <<>>]_vars

\* an empty entry failed after an earlier entry of the same list changed the filesystem
C3_Witness ==
  /\ last.op = "entry"
  /\ last.ref = ""
  /\ last.err = "empty path"
  /\ last.frame.idx > 1
  /\ nmut > last.frame.mut0

\* C4: given an existing file that is no directory, the driver takes the
\* directory of the file as the root and goes on to processKustomization with
\* an empty relative path.
C4_FileArgumentAccepted ==
  (last.op = "main" /\ Len(args) > 0 /\ Stat(fs0, args[1]).err = "" /\ ~Stat(fs0, args[1]).isDir) =>
    /\ pc = "enter"
    /\ call = [oldRoot |-> Dir(args[1]), resource |-> ""]

\* C5: a local reference given as a relative path that ends in ".jsonnet",
\* once it has reached processFileRef and its output directory is made, is
\* rendered exactly once, from join(directory, reference) to
\* join(output root, directory, reference) + ".yml", and on success is
\* rewritten to reference + ".yml"; an absolute reference is never rendered.
C5_TemplateRendered ==
  /\ (/\ EntryDone
      /\ ~last.recurse
      /\ last.err \notin {"stat", "mkdir"}
      /\ isLocalFile(LastQPath)
      /\ ~IsAbs(last.ref)
      /\ HasSuffix(last.ref, ".jsonnet")) =>
       /\ last.runs = <<[src |-> LastQPath,
                         dest |-> Join(<<j.Output, last.frame.root, last.ref>>) \o ".yml"]>>
       /\ (last.err = "" => last.result = last.ref \o ".yml")
  /\ (EntryDone /\ IsAbs(last.ref)) =>
       /\ last.runs = <<>>
       /\ "jsonnet" \notin Range(last.sys)

C5_Witness ==
  /\ EntryDone
  /\ last.ref = "c.jsonnet"
  /\ last.err = ""
  /\ last.result = "c.jsonnet.yml"
  /\ Len(jsonnetRuns) = 1

\* C6: a resource that names an existing directory makes resolution recurse
\* into join(directory, reference) and stays unchanged in the rewritten list;
\* once the whole resolution has succeeded every kustomization entered has its
\* rewritten manifest at join(output root, its directory, manifest filename);
\* generators and transformers never recurse.
C6_DirectoryResource ==
  /\ (EntryDone /\ last.li = 1 /\ Stat(fs, LastQPath).err = "" /\ Stat(fs, LastQPath).isDir) =>
       /\ last.recurse
       /\ pc = "enter"
       /\ call = [oldRoot |-> last.frame.root, resource |-> last.ref]
  /\ (last.op = "enter" /\ last.err = "") =>
       /\ Top.root = Join(<<call.oldRoot, call.resource>>)
       /\ Top.kust \in {Join(<<Top.root, "kustomization.yml">>),
                        Join(<<Top.root, "kustomization.yaml">>)}
  /\ (last.op = "resumed" /\ last.err = "") =>
       /\ Top.li = 1
       /\ Top.final[Len(Top.final)] = Top.k.res[Top.idx - 1]
       /\ Top.final[Len(Top.final)] = call.resource
  /\ (EntryDone /\ last.li \in {2, 3}) => (~last.recurse /\ pc # "enter")
  /\ (pc = "kustomize") =>
       \A i \in 1..Len(visited) :
         /\ Abs(Join(<<j.Output, visited[i].root, BaseName(visited[i].kust)>>)) \in DOMAIN fs
         /\ fs[Abs(Join(<<j.Output, visited[i].root, BaseName(visited[i].kust)>>))].tag = "manifest"

\* the whole resolution succeeded with a nested kustomization entered
C6_Witness ==
  /\ pc = "kustomize"
  /\ Len(visited) >= 2
  /\ "/out/p/o/kustomization.yaml" \in DOMAIN fs

\* C7: once an error is being returned nothing more is processed: every step
\* returns from one more invocation or exits with status 1, the filesystem,
\* the renderer runs and the written manifests stay as they are, and the build
\* tool is not run; the build tool runs at most once, and only after the root
\* resolution has returned without error.
C7_FailFast ==
  /\ [][(err # "" /\ pc # "exit") =>
          /\ pc = "return"
          /\ err' = err
          /\ fs' = fs
          /\ jsonnetRuns' = jsonnetRuns
          /\ writes' = writes
          /\ kustomizeRuns' = kustomizeRuns
          /\ \/ stack # <<>> /\ stack' = Pop(stack) /\ pc' = "return"
             \/ stack = <<>> /\ pc' = "exit" /\ exit' = 1]_vars
  /\ [][kustomizeRuns' # kustomizeRuns =>
          /\ kustomizeRuns = <<>>
          /\ pc = "kustomize"
          /\ err = ""
          /\ stack = <<>>
          /\ last.op = "resolved"]_vars
  /\ [](pc = "kustomize" => (err = "" /\ stack = <<>> /\ last.op = "resolved" /\ last.err = ""))
  /\ [](Len(kustomizeRuns) <= 1)

\* a nested invocation has failed and its caller is about to return the error
C7_Witness ==
  /\ pc = "return"
  /\ err # ""
  /\ stack # <<>>
  /\ nmut > 0

\* C8: the rewritten manifest has as many resources, generators and
\* transformers as the manifest read, and its i-th entry is the i-th original
\* entry or that entry with ".yml" appended.
C8_ListsPreserved ==
  (last.op = "write" /\ last.err = "") =>
    \A li \in 1..3 :
      LET orig == ListOf(last.frame.orig, li)
          new == ListOf(Unmarshal(fs[Abs(last.result)]), li)
      IN  /\ Len(new) = Len(orig)
          /\ \A i \in 1..Len(orig) : new[i] \in {orig[i], orig[i] \o ".yml"}

\* a manifest with two different resources was rewritten, one of them rendered
C8_Witness ==
  /\ last.op = "write"
  /\ last.err = ""
  /\ Len(last.frame.orig.res) = 2
  /\ last.frame.orig.res[1] # last.frame.orig.res[2]
  /\ last.frame.k.res[2] = last.frame.orig.res[2] \o ".yml"

\* C9: QualifyOutput joins the output root, the whole of root and path; every
\* file the resolver writes lies at the output root joined with the path of
\* its source (plus ".yml" for a rendered file), and the build tool is given
\* the output root joined with the manifest root.
C9_OutputMirrorsInput ==
  /\ QualifyOutput([Base |-> "/abc/123", Output |-> "/output/here"], "/abc/123/xyz", "my.resource")
       = "/output/here/abc/123/xyz/my.resource"
  /\ \A i \in 1..Len(writes) :
       writes[i].dest = Join(<<j.Output, writes[i].src>>)
                          \o (IF writes[i].kind = "render" THEN ".yml" ELSE "")
  /\ \A i \in 1..Len(jsonnetRuns) :
       jsonnetRuns[i].dest = Join(<<j.Output, jsonnetRuns[i].src>>) \o ".yml"
  /\ \A i \in 1..Len(kustomizeRuns) : kustomizeRuns[i] = Join(<<j.Output, j.Base>>)

\* a copy, a rendering and a manifest were written and the build tool was run
C9_Witness ==
  /\ {writes[i].kind : i \in 1..Len(writes)} = {"copy", "render", "manifest"}
  /\ kustomizeRuns # <<>>
  /\ j.Output = "/out"

\* C10: every file of the input tree has, at every moment of the run, the
\* content it had before the run.
C10_InputTreeUntouched ==
  \A p \in DOMAIN fs0 :
    fs0[p].type = "file" => (p \in DOMAIN fs /\ fs[p] = fs0[p])

====
